---- MODULE Spec2Model ----
(***************************************************************************)
(* Model of build.rs of libbpf-sys: the build script that resolves the     *)
(* vendoring / static-link mode of libbpf, libelf and zlib, checks the     *)
(* tools it needs, builds the vendored libraries in order (make_zlib,      *)
(* make_elfutils, make_libbpf) and prints the cargo directives.            *)
(*                                                                         *)
(* Several runs of the script (several crates depending on libbpf-sys      *)
(* being built at once) share one source tree.  Each run is a sequential   *)
(* process; pc[r] is its position in main and in the builder it is in.     *)
(* The two flock(2) locks taken in make_zlib and make_elfutils are the     *)
(* only state shared between runs.                                         *)
(***************************************************************************)
EXTENDS Integers, Sequences, FiniteSets, TLC

(* ---------------------------- bounds ----------------------------------- *)

\* number of concurrent runs of the build script
NumRuns == 2
\* number of entries read_dir finds in a directory
MaxDirEntries == 1
\* number of ':'-separated segments of LD_LIBRARY_PATH
MaxLdEntries == 2

Runs == 1..NumRuns

(* ------------------------- inputs of a run ----------------------------- *)

Features ==
    {"vendored-libbpf", "vendored-libelf", "vendored-zlib",
     "static-libbpf", "static-libelf", "static-zlib", "novendor"}

TargetOS == {"android", "linux", "macos"}

\* the ambient configuration of one run: cfg!(feature = ...) and
\* CARGO_CFG_TARGET_OS
Configs == [features : SUBSET Features, target_os : TargetOS]

\* exit of an external process as the script sees it: started and exited
\* zero, started and exited non-zero, could not be started (status() is Err)
Status == {"ok", "nonzero", "nospawn"}

\* LD_LIBRARY_PATH as env::var returns it: unset, or its value as the
\* list of segments that split(':') yields (never an empty list)
LdSegments == {"", "/usr/lib", "/opt/lib"}

LdSplits == UNION {[1..n -> LdSegments] : n \in 1..MaxLdEntries}

LdLibraryPaths ==
    {[set |-> FALSE, parts |-> <<>>]} \cup {[set |-> TRUE, parts |-> p] : p \in LdSplits}

\* CARGO_CFG_TARGET_ARCH, CARGO_CFG_TARGET_VENDOR and CARGO_CFG_TARGET_ENV
TargetArch == {"x86_64", "aarch64", "riscv64gc", "riscv32gc", "riscv64"}

TargetVendor == {"unknown", "apple"}

TargetEnv == {"gnu", "musl"}

\* the environment variables of one run that the script reads besides
\* CARGO_CFG_TARGET_OS
Envs ==
    [target_arch : TargetArch, target_vendor : TargetVendor, target_env : TargetEnv,
     ld_library_path : LdLibraryPaths]

DefaultLd == [set |-> TRUE, parts |-> <<"/usr/lib">>]

DefaultEnv ==
    [target_arch |-> "x86_64", target_vendor |-> "unknown", target_env |-> "gnu",
     ld_library_path |-> DefaultLd]

(* ----------------------------- paths ----------------------------------- *)

\* a path is the sequence of its components; join appends
src_dir == <<"CARGO_MANIFEST_DIR">>

out_dir == <<"OUT_DIR">>

DirEntryNames == <<"f1", "f2", "f3", "f4">>

\* the paths read_dir(dir) yields, in order
read_dir(dir) == [i \in 1..MaxDirEntries |-> dir \o <<DirEntryNames[i]>>]

(* --------------------------- directives -------------------------------- *)

\* one line printed with the cargo: prefix
Directive(kind, mode, arg) == [kind |-> kind, mode |-> mode, arg |-> arg]

\* emit_rerun_directives_for_contents: one rerun-if-changed per entry
RerunDirectives(dir) ==
    [i \in 1..Len(read_dir(dir)) |-> Directive("rerun-if-changed", "", read_dir(dir)[i])]

\* println!("cargo:rustc-link-lib={}<lib>", if static { "static=" } else { "" })
LinkLib_byVendored(lib, static, vendored) ==
    Directive("rustc-link-lib", IF vendored THEN "static=" ELSE "", <<lib>>)

LinkLib(lib, static, vendored) ==
    Directive("rustc-link-lib", IF static THEN "static=" ELSE "", <<lib>>)

(* ----------------------- link-mode resolution -------------------------- *)

build_android(c) == c.target_os = "android"

Resolve_and(feature, c) == feature \in c.features /\ build_android(c)

\* cfg!(feature = "...") || android
Resolve(feature, c) == feature \in c.features \/ build_android(c)

ResolveMode(c) ==
    [vendored_libbpf |-> Resolve("vendored-libbpf", c),
     vendored_libelf |-> Resolve("vendored-libelf", c),
     vendored_zlib   |-> Resolve("vendored-zlib", c),
     static_libbpf   |-> Resolve("static-libbpf", c),
     static_libelf   |-> Resolve("static-libelf", c),
     static_zlib     |-> Resolve("static-zlib", c)]

\* the locals of main before they are assigned
NoMode ==
    [vendored_libbpf |-> FALSE, vendored_libelf |-> FALSE, vendored_zlib |-> FALSE,
     static_libbpf |-> FALSE, static_libelf |-> FALSE, static_zlib |-> FALSE]

host_triple_rv64only(arch, vendor, os, e) ==
    (IF arch = "riscv64gc" THEN "riscv64" ELSE arch)
        \o "-" \o vendor \o "-" \o os \o "-" \o e

\* lines 331-342: the --host argument of elfutils' configure,
\* format!("{arch}-{vendor}-{os}-{env}") with the two riscv names mapped
host_triple(arch, vendor, os, e) ==
    (CASE arch = "riscv64gc" -> "riscv64"
       [] arch = "riscv32gc" -> "riscv32"
       [] OTHER -> arch)
        \o "-" \o vendor \o "-" \o os \o "-" \o e

AnyVendored(m) == m.vendored_libbpf \/ m.vendored_libelf \/ m.vendored_zlib

AutoTools == <<"autoreconf", "autopoint", "flex", "bison", "gawk", "aclocal">>

RequiredTools_always(m) == AutoTools \o <<"pkg-config">>

RequiredTools_twice(m) ==
    (IF m.vendored_libelf THEN AutoTools \o <<"pkg-config">> ELSE <<>>)
        \o (IF AnyVendored(m) THEN <<"pkg-config">> ELSE <<>>)

\* the programs main passes to pkg_check, in order
RequiredTools(m) ==
    (IF m.vendored_libelf THEN AutoTools ELSE <<>>)
        \o (IF AnyVendored(m) THEN <<"pkg-config">> ELSE <<>>)

(* ------------------------------ state ---------------------------------- *)

VARIABLES
    cfg,        \* cfg[r]: the features and target OS run r is built with
    env,        \* env[r]: the other environment variables run r reads
    host,       \* host[r]: the --host argument run r gave elfutils' configure
    pc,         \* pc[r]: position of run r
    mode,       \* mode[r]: the vendored_* / static_* locals of main
    checked,    \* checked[r]: programs passed to pkg_check so far, in order
    steps,      \* steps[r]: builder calls, returns and external steps, in order
    last,       \* last[r]: the last external process run r launched, and its exit
    out,        \* out[r]: cargo directives printed so far, in order
    zlib_lock,  \* runs holding the flock on <src>/README.md
    elf_lock    \* runs holding the flock on <src>/elfutils/README

vars == <<cfg, env, host, pc, mode, checked, steps, last, out, zlib_lock, elf_lock>>

NoProcess == [prog |-> "", status |-> "ok"]

\* no configure of elfutils was launched yet
NoHost == ""

InitRunEnv(c, e) ==
    /\ cfg = c
    /\ env = e
    /\ host = [r \in Runs |-> NoHost]
    /\ pc = [r \in Runs |-> "main"]
    /\ mode = [r \in Runs |-> NoMode]
    /\ checked = [r \in Runs |-> <<>>]
    /\ steps = [r \in Runs |-> <<>>]
    /\ last = [r \in Runs |-> NoProcess]
    /\ out = [r \in Runs |-> <<>>]
    /\ zlib_lock = {}
    /\ elf_lock = {}

InitRun(c) == InitRunEnv(c, [r \in Runs |-> DefaultEnv])

\* the configuration whose run builds nothing
LegacyConfig == [features |-> {"novendor"}, target_os |-> "linux"]

AllVendoredConfig ==
    [features |-> {"vendored-libbpf", "vendored-libelf", "vendored-zlib"},
     target_os |-> "linux"]

\* one run under every configuration, next to runs that build nothing
Init ==
    \E c \in [Runs -> Configs] :
        /\ \A r \in Runs \ {1} : c[r] = LegacyConfig
        /\ InitRun(c)

\* every run either vendors all three libraries or builds nothing
InitConc ==
    \E c \in [Runs -> {AllVendoredConfig, LegacyConfig}] : InitRun(c)

\* one run that vendors libelf under every target triple, or under every
\* value of LD_LIBRARY_PATH, next to runs that build nothing
InitEnv ==
    \E os \in TargetOS, e \in Envs :
        /\ \/ e.ld_library_path = DefaultLd
           \/ /\ os = "linux"
              /\ e = [DefaultEnv EXCEPT !.ld_library_path = e.ld_library_path]
        /\ InitRunEnv([r \in Runs |-> IF r = 1
                                      THEN [features |-> {"vendored-libelf"},
                                            target_os |-> os]
                                      ELSE LegacyConfig],
                      [r \in Runs |-> IF r = 1 THEN e ELSE DefaultEnv])

(* ----------------------- scope exit and panics ------------------------- *)

Drop_leak(lock, r) == lock

\* Drop of the Flock guard _lock: the run no longer holds the lock
Drop(lock, r) == lock \ {r}

\* a panic in main, outside the builders: no guard is in scope
MainPanic(r) ==
    /\ pc' = [pc EXCEPT ![r] = "failed"]
    /\ UNCHANGED <<zlib_lock, elf_lock>>

ZlibPanic_held(r) ==
    /\ pc' = [pc EXCEPT ![r] = "failed"]
    /\ UNCHANGED <<zlib_lock, elf_lock>>

\* a panic inside make_zlib after the lock was taken: unwinding drops _lock
ZlibPanic(r) ==
    /\ pc' = [pc EXCEPT ![r] = "failed"]
    /\ zlib_lock' = Drop(zlib_lock, r)
    /\ UNCHANGED elf_lock

\* a panic inside make_elfutils after the lock was taken
ElfPanic(r) ==
    /\ pc' = [pc EXCEPT ![r] = "failed"]
    /\ elf_lock' = Drop(elf_lock, r)
    /\ UNCHANGED zlib_lock

Goto(r, l) == pc' = [pc EXCEPT ![r] = l]

Launch(r, prog, st) ==
    /\ last' = [last EXCEPT ![r] = [prog |-> prog, status |-> st]]
    /\ steps' = [steps EXCEPT ![r] = Append(@, prog)]

Emit(r, ds) == out' = [out EXCEPT ![r] = @ \o ds]

(* ------------------------------- main ---------------------------------- *)

\* lines 117-135: CARGO_MANIFEST_DIR, generate_bindings, build_android and
\* the six resolved flags; a missing variable or a binding failure panics
MainResolve(r) ==
    /\ pc[r] = "main"
    /\ \E ok \in BOOLEAN :
        IF ok
        THEN /\ mode' = [mode EXCEPT ![r] = ResolveMode(cfg[r])]
             /\ Goto(r, "novendor")
             /\ UNCHANGED <<zlib_lock, elf_lock>>
        ELSE /\ MainPanic(r)
             /\ UNCHANGED mode
    /\ UNCHANGED <<cfg, env, host, checked, steps, last, out>>

Novendor_fallthrough(r) ==
    /\ pc[r] = "novendor"
    /\ "novendor" \in cfg[r].features
    /\ Emit(r, <<Directive("warning", "", <<"the novendor feature is deprecated">>),
                 LinkLib("bpf", mode[r].static_libbpf, mode[r].vendored_libbpf)>>)
    /\ Goto(r, "tools")
    /\ UNCHANGED <<cfg, env, host, mode, checked, steps, last, zlib_lock, elf_lock>>

\* lines 137-144: the deprecated novendor feature prints and returns
Novendor(r) ==
    /\ pc[r] = "novendor"
    /\ "novendor" \in cfg[r].features
    /\ Emit(r, <<Directive("warning", "", <<"the novendor feature is deprecated">>),
                 LinkLib("bpf", mode[r].static_libbpf, mode[r].vendored_libbpf)>>)
    /\ Goto(r, "done")
    /\ UNCHANGED <<cfg, env, host, mode, checked, steps, last, zlib_lock, elf_lock>>

\* line 146: OUT_DIR must be set
MainOutDir(r) ==
    /\ pc[r] = "novendor"
    /\ "novendor" \notin cfg[r].features
    /\ \E ok \in BOOLEAN :
        IF ok THEN Goto(r, "tools") /\ UNCHANGED <<zlib_lock, elf_lock>>
        ELSE MainPanic(r)
    /\ UNCHANGED <<cfg, env, host, mode, checked, steps, last, out>>

PkgCheck_strict(r) ==
    /\ pc[r] = "tools"
    /\ Len(checked[r]) < Len(RequiredTools(mode[r]))
    /\ LET tool == RequiredTools(mode[r])[Len(checked[r]) + 1] IN
        /\ checked' = [checked EXCEPT ![r] = Append(@, tool)]
        /\ \E st \in Status :
            /\ last' = [last EXCEPT ![r] = [prog |-> tool, status |-> st]]
            /\ IF st # "ok" THEN MainPanic(r)
               ELSE UNCHANGED <<pc, zlib_lock, elf_lock>>
    /\ UNCHANGED <<cfg, env, host, mode, steps, out>>

\* pkg_check (lines 102-114) on the next program main asks for (lines
\* 149-159): only a program that cannot be started at all panics
PkgCheck(r) ==
    /\ pc[r] = "tools"
    /\ Len(checked[r]) < Len(RequiredTools(mode[r]))
    /\ LET tool == RequiredTools(mode[r])[Len(checked[r]) + 1] IN
        /\ checked' = [checked EXCEPT ![r] = Append(@, tool)]
        /\ \E st \in Status :
            /\ last' = [last EXCEPT ![r] = [prog |-> tool, status |-> st]]
            /\ IF st = "nospawn" THEN MainPanic(r)
               ELSE UNCHANGED <<pc, zlib_lock, elf_lock>>
    /\ UNCHANGED <<cfg, env, host, mode, steps, out>>

\* lines 158-173: with anything vendored, after pkg-config, the C compiler
\* is looked up (expect) and LIBBPF_SYS_EXTRA_CFLAGS is announced
GetCompiler(r) ==
    /\ pc[r] = "tools"
    /\ Len(checked[r]) = Len(RequiredTools(mode[r]))
    /\ IF AnyVendored(mode[r])
       THEN \E ok \in BOOLEAN :
            IF ok
            THEN /\ Emit(r, <<Directive("rerun-if-env-changed", "",
                                        <<"LIBBPF_SYS_EXTRA_CFLAGS">>)>>)
                 /\ Goto(r, "zlib")
                 /\ UNCHANGED <<zlib_lock, elf_lock>>
            ELSE /\ MainPanic(r)
                 /\ UNCHANGED out
       ELSE /\ Goto(r, "zlib")
            /\ UNCHANGED <<out, zlib_lock, elf_lock>>
    /\ UNCHANGED <<cfg, env, host, mode, checked, steps, last>>

(* ----------------------------- make_zlib ------------------------------- *)

CallMakeZlib_skipped(r) ==
    /\ pc[r] = "zlib"
    /\ Goto(r, "elf")
    /\ UNCHANGED <<cfg, env, host, mode, checked, steps, last, out, zlib_lock, elf_lock>>

CallMakeZlib_linkfirst(r) ==
    /\ pc[r] = "zlib"
    /\ Emit(r, <<Directive("rustc-link-search", "native=", out_dir)>>)
    /\ IF mode[r].vendored_zlib
       THEN /\ steps' = [steps EXCEPT ![r] = Append(@, "make_zlib")]
            /\ Goto(r, "z_lock")
       ELSE /\ Goto(r, "elf")
            /\ UNCHANGED steps
    /\ UNCHANGED <<cfg, env, host, mode, checked, last, zlib_lock, elf_lock>>

\* lines 175-176: main calls make_zlib if zlib is vendored
CallMakeZlib(r) ==
    /\ pc[r] = "zlib"
    /\ IF mode[r].vendored_zlib
       THEN /\ steps' = [steps EXCEPT ![r] = Append(@, "make_zlib")]
            /\ Goto(r, "z_lock")
       ELSE /\ Goto(r, "elf")
            /\ UNCHANGED steps
    /\ UNCHANGED <<cfg, env, host, mode, checked, last, out, zlib_lock, elf_lock>>

ZlibLock_unguarded(r) ==
    /\ pc[r] = "z_lock"
    /\ zlib_lock' = zlib_lock \cup {r}
    /\ Goto(r, "z_chmod")
    /\ UNCHANGED <<cfg, env, host, mode, checked, steps, last, out, elf_lock>>

\* lines 221-222: open README.md (unwrap) and take the exclusive flock,
\* which blocks while another open file description holds it; an error
\* of open or flock panics before any guard exists
ZlibLock(r) ==
    /\ pc[r] = "z_lock"
    /\ \/ /\ zlib_lock = {}
          /\ zlib_lock' = {r}
          /\ Goto(r, "z_chmod")
          /\ UNCHANGED elf_lock
       \/ MainPanic(r)
    /\ UNCHANGED <<cfg, env, host, mode, checked, steps, last, out>>

\* configure, line 446: let _ = subproc(chmod): the exit status is
\* dropped; only a chmod that cannot be started panics (subproc's expect)
ZlibChmod(r) ==
    /\ pc[r] = "z_chmod"
    /\ \E st \in Status :
        /\ Launch(r, "chmod", st)
        /\ IF st = "nospawn" THEN ZlibPanic(r)
           ELSE Goto(r, "z_configure") /\ UNCHANGED <<zlib_lock, elf_lock>>
    /\ UNCHANGED <<cfg, env, host, mode, checked, out>>

\* configure, lines 448-455: ./configure in zlib, asserted successful
ZlibConfigure(r) ==
    /\ pc[r] = "z_configure"
    /\ \E st \in Status :
        /\ Launch(r, "zlib/configure", st)
        /\ IF st = "ok" THEN Goto(r, "z_compile") /\ UNCHANGED <<zlib_lock, elf_lock>>
           ELSE ZlibPanic(r)
    /\ UNCHANGED <<cfg, env, host, mode, checked, out>>

\* lines 261-279: cc::Build compiles the zlib sources into libz.a;
\* compile() panics on any failure
ZlibCompile(r) ==
    /\ pc[r] = "z_compile"
    /\ \E st \in Status :
        /\ Launch(r, "cc", st)
        /\ IF st = "ok" THEN Goto(r, "z_rerun") /\ UNCHANGED <<zlib_lock, elf_lock>>
           ELSE ZlibPanic(r)
    /\ UNCHANGED <<cfg, env, host, mode, checked, out>>

ZlibReturn_nodrop(r) ==
    /\ pc[r] = "z_rerun"
    /\ Emit(r, RerunDirectives(src_dir))
    /\ steps' = [steps EXCEPT ![r] = Append(@, "make_zlib:return")]
    /\ Goto(r, "elf")
    /\ UNCHANGED <<cfg, env, host, mode, checked, last, zlib_lock, elf_lock>>

\* lines 281-282: rerun directives for the entries of src_dir (read_dir
\* and each entry are unwrapped), then return: _lock goes out of scope
ZlibReturn(r) ==
    /\ pc[r] = "z_rerun"
    /\ \E n \in 0..MaxDirEntries, ok \in BOOLEAN :
        /\ ok => n = MaxDirEntries
        /\ Emit(r, SubSeq(RerunDirectives(src_dir), 1, n))
        /\ IF ok
           THEN /\ steps' = [steps EXCEPT ![r] = Append(@, "make_zlib:return")]
                /\ zlib_lock' = Drop(zlib_lock, r)
                /\ Goto(r, "elf")
                /\ UNCHANGED elf_lock
           ELSE /\ ZlibPanic(r)
                /\ UNCHANGED steps
    /\ UNCHANGED <<cfg, env, host, mode, checked, last>>

(* --------------------------- make_elfutils ----------------------------- *)

CallMakeElfutils_always(r) ==
    /\ pc[r] = "elf"
    /\ steps' = [steps EXCEPT ![r] = Append(@, "make_elfutils")]
    /\ Goto(r, "e_lock")
    /\ UNCHANGED <<cfg, env, host, mode, checked, last, out, zlib_lock, elf_lock>>

\* lines 180-181: main calls make_elfutils if libelf is vendored
CallMakeElfutils(r) ==
    /\ pc[r] = "elf"
    /\ IF mode[r].vendored_libelf
       THEN /\ steps' = [steps EXCEPT ![r] = Append(@, "make_elfutils")]
            /\ Goto(r, "e_lock")
       ELSE /\ Goto(r, "bpf")
            /\ UNCHANGED steps
    /\ UNCHANGED <<cfg, env, host, mode, checked, last, out, zlib_lock, elf_lock>>

\* lines 288-289: open elfutils/README and take the exclusive flock
ElfLock(r) ==
    /\ pc[r] = "e_lock"
    /\ \/ /\ elf_lock = {}
          /\ elf_lock' = {r}
          /\ Goto(r, "e_autoreconf")
          /\ UNCHANGED zlib_lock
       \/ MainPanic(r)
    /\ UNCHANGED <<cfg, env, host, mode, checked, steps, last, out>>

\* an external step of make_elfutils: status() is expect-ed and the exit
\* asserted successful
ElfStep(r, at, prog, next) ==
    /\ pc[r] = at
    /\ \E st \in Status :
        /\ Launch(r, prog, st)
        /\ IF st = "ok" THEN Goto(r, next) /\ UNCHANGED <<zlib_lock, elf_lock>>
           ELSE ElfPanic(r)
    /\ UNCHANGED <<cfg, env, host, mode, checked, out>>

\* lines 311-318
ElfAutoreconf(r) == ElfStep(r, "e_autoreconf", "autoreconf --install --force", "e_configure")

\* lines 322-354: ./configure in elfutils with the host triple computed
\* from the CARGO_CFG_TARGET_* variables (each unwrapped)
ElfConfigure(r) ==
    /\ pc[r] = "e_configure"
    /\ \E envok \in BOOLEAN, st \in Status :
        IF envok
        THEN /\ host' = [host EXCEPT ![r] =
                            host_triple(env[r].target_arch, env[r].target_vendor,
                                        cfg[r].target_os, env[r].target_env)]
             /\ Launch(r, "elfutils/configure", st)
             /\ IF st = "ok"
                THEN Goto(r, "e_makelib") /\ UNCHANGED <<zlib_lock, elf_lock>>
                ELSE ElfPanic(r)
        ELSE /\ st = "ok"
             /\ ElfPanic(r)
             /\ UNCHANGED <<host, steps, last>>
    /\ UNCHANGED <<cfg, env, mode, checked, out>>

ElfMakeLib_unchecked(r) ==
    /\ pc[r] = "e_makelib"
    /\ \E st \in Status :
        /\ Launch(r, "make elfutils/lib", st)
        /\ IF st # "nospawn" THEN Goto(r, "e_install") /\ UNCHANGED <<zlib_lock, elf_lock>>
           ELSE ElfPanic(r)
    /\ UNCHANGED <<cfg, env, host, mode, checked, out>>

\* lines 357-365: make in elfutils/lib
ElfMakeLib(r) == ElfStep(r, "e_makelib", "make elfutils/lib", "e_install")

\* lines 368-377: make install in elfutils/libelf
ElfMakeInstall(r) == ElfStep(r, "e_install", "make install elfutils/libelf", "e_distclean")

ElfDistclean_ignored(r) ==
    /\ pc[r] = "e_distclean"
    /\ \E st \in Status :
        /\ Launch(r, "make distclean elfutils", st)
        /\ IF st # "nospawn" THEN Goto(r, "e_rerun") /\ UNCHANGED <<zlib_lock, elf_lock>>
           ELSE ElfPanic(r)
    /\ UNCHANGED <<cfg, env, host, mode, checked, out>>

\* lines 379-385: make distclean in elfutils
ElfDistclean(r) == ElfStep(r, "e_distclean", "make distclean elfutils", "e_rerun")

ElfReturn_nodrop(r) ==
    /\ pc[r] = "e_rerun"
    /\ Emit(r, RerunDirectives(src_dir \o <<"elfutils", "src">>))
    /\ steps' = [steps EXCEPT ![r] = Append(@, "make_elfutils:return")]
    /\ Goto(r, "bpf")
    /\ UNCHANGED <<cfg, env, host, mode, checked, last, zlib_lock, elf_lock>>

\* lines 386-387: rerun directives for elfutils/src, then return
ElfReturn(r) ==
    /\ pc[r] = "e_rerun"
    /\ \E n \in 0..MaxDirEntries, ok \in BOOLEAN :
        /\ ok => n = MaxDirEntries
        /\ Emit(r, SubSeq(RerunDirectives(src_dir \o <<"elfutils", "src">>), 1, n))
        /\ IF ok
           THEN /\ steps' = [steps EXCEPT ![r] = Append(@, "make_elfutils:return")]
                /\ elf_lock' = Drop(elf_lock, r)
                /\ Goto(r, "bpf")
                /\ UNCHANGED zlib_lock
           ELSE /\ ElfPanic(r)
                /\ UNCHANGED steps
    /\ UNCHANGED <<cfg, env, host, mode, checked, last>>

(* ---------------------------- make_libbpf ------------------------------ *)

CallMakeLibbpf_linkfirst(r) ==
    /\ pc[r] = "bpf"
    /\ IF mode[r].vendored_libbpf
       THEN /\ steps' = [steps EXCEPT ![r] = Append(@, "make_libbpf")]
            /\ Emit(r, <<Directive("rustc-link-search", "native=", out_dir)>>)
            /\ Goto(r, "b_install")
       ELSE /\ Goto(r, "emit")
            /\ UNCHANGED <<steps, out>>
    /\ UNCHANGED <<cfg, env, host, mode, checked, last, zlib_lock, elf_lock>>

\* lines 185-186 and 395-398: main calls make_libbpf if libbpf is vendored
CallMakeLibbpf(r) ==
    /\ pc[r] = "bpf"
    /\ IF mode[r].vendored_libbpf
       THEN /\ steps' = [steps EXCEPT ![r] = Append(@, "make_libbpf")]
            /\ Goto(r, "b_install")
       ELSE /\ Goto(r, "emit")
            /\ UNCHANGED steps
    /\ UNCHANGED <<cfg, env, host, mode, checked, last, out, zlib_lock, elf_lock>>

\* an external step of make_libbpf: no guard is in scope
BpfStep(r, at, prog, next) ==
    /\ pc[r] = at
    /\ \E st \in Status :
        /\ Launch(r, prog, st)
        /\ IF st = "ok" THEN Goto(r, next) /\ UNCHANGED <<zlib_lock, elf_lock>>
           ELSE MainPanic(r)
    /\ UNCHANGED <<cfg, env, host, mode, checked, out>>

\* lines 400-415: make install in libbpf/src
BpfMakeInstall(r) == BpfStep(r, "b_install", "make install libbpf/src", "b_clean")

\* lines 417-423: make clean in libbpf/src
BpfMakeClean(r) == BpfStep(r, "b_clean", "make clean libbpf/src", "b_rerun")

\* lines 424-425: rerun directives for libbpf/src, then return
BpfReturn(r) ==
    /\ pc[r] = "b_rerun"
    /\ \E n \in 0..MaxDirEntries, ok \in BOOLEAN :
        /\ ok => n = MaxDirEntries
        /\ Emit(r, SubSeq(RerunDirectives(src_dir \o <<"libbpf", "src">>), 1, n))
        /\ IF ok
           THEN /\ steps' = [steps EXCEPT ![r] = Append(@, "make_libbpf:return")]
                /\ Goto(r, "emit")
                /\ UNCHANGED <<zlib_lock, elf_lock>>
           ELSE /\ MainPanic(r)
                /\ UNCHANGED steps
    /\ UNCHANGED <<cfg, env, host, mode, checked, last>>

(* ------------------------- the final directives ------------------------ *)

RECURSIVE LdSearch_all(_)
LdSearch_all(parts) ==
    IF parts = <<>> THEN <<>>
    ELSE <<Directive("rustc-link-search", "native=", <<Head(parts)>>)>>
            \o LdSearch_all(Tail(parts))

RECURSIVE LdSearch(_)
\* lines 209-213: a link-search directive for every non-empty segment
LdSearch(parts) ==
    IF parts = <<>> THEN <<>>
    ELSE (IF Head(parts) # ""
          THEN <<Directive("rustc-link-search", "native=", <<Head(parts)>>)>>
          ELSE <<>>) \o LdSearch(Tail(parts))

\* lines 189-205
LinkDirectives(m) ==
    <<Directive("rustc-link-search", "native=", out_dir),
      LinkLib("elf", m.static_libelf, m.vendored_libelf),
      LinkLib("z", m.static_zlib, m.vendored_zlib),
      LinkLib("bpf", m.static_libbpf, m.vendored_libbpf),
      Directive("include", "", out_dir \o <<"include">>)>>

\* lines 189-215: the link and include directives, then LD_LIBRARY_PATH
EmitDirectives(r) ==
    /\ pc[r] = "emit"
    /\ LET ld == env[r].ld_library_path IN
        Emit(r, LinkDirectives(mode[r])
                \o <<Directive("rerun-if-env-changed", "", <<"LD_LIBRARY_PATH">>)>>
                \o (IF ld.set THEN LdSearch(ld.parts) ELSE <<>>))
    /\ Goto(r, "done")
    /\ UNCHANGED <<cfg, env, host, mode, checked, steps, last, zlib_lock, elf_lock>>

(* --------------------------- specification ----------------------------- *)

Next ==
    \E r \in Runs :
        \/ MainResolve(r)
        \/ Novendor(r)
        \/ MainOutDir(r)
        \/ PkgCheck(r)
        \/ GetCompiler(r)
        \/ CallMakeZlib(r)
        \/ ZlibLock(r)
        \/ ZlibChmod(r)
        \/ ZlibConfigure(r)
        \/ ZlibCompile(r)
        \/ ZlibReturn(r)
        \/ CallMakeElfutils(r)
        \/ ElfLock(r)
        \/ ElfAutoreconf(r)
        \/ ElfConfigure(r)
        \/ ElfMakeLib(r)
        \/ ElfMakeInstall(r)
        \/ ElfDistclean(r)
        \/ ElfReturn(r)
        \/ CallMakeLibbpf(r)
        \/ BpfMakeInstall(r)
        \/ BpfMakeClean(r)
        \/ BpfReturn(r)
        \/ EmitDirectives(r)

Spec == Init /\ [][Next]_vars

SpecConc == InitConc /\ [][Next]_vars

SpecEnv == InitEnv /\ [][Next]_vars

\* the steps of one run
RunNext(r) ==
    \/ MainResolve(r) \/ Novendor(r) \/ MainOutDir(r) \/ PkgCheck(r) \/ GetCompiler(r)
    \/ CallMakeZlib(r) \/ ZlibLock(r) \/ ZlibChmod(r) \/ ZlibConfigure(r)
    \/ ZlibCompile(r) \/ ZlibReturn(r)
    \/ CallMakeElfutils(r) \/ ElfLock(r) \/ ElfAutoreconf(r) \/ ElfConfigure(r)
    \/ ElfMakeLib(r) \/ ElfMakeInstall(r) \/ ElfDistclean(r) \/ ElfReturn(r)
    \/ CallMakeLibbpf(r) \/ BpfMakeInstall(r) \/ BpfMakeClean(r) \/ BpfReturn(r)
    \/ EmitDirectives(r)

\* a step of run r other than an error of open or flock: the script is
\* single-threaded and blocking, every external process it waits for exits,
\* and flock returns once the lock is free; nothing makes open or flock fail
Progress(r) ==
    RunNext(r) /\ ~(pc[r] \in {"z_lock", "e_lock"} /\ pc'[r] = "failed")

\* concurrent runs, each of which goes on while it can
SpecFair == InitConc /\ [][Next]_vars /\ \A r \in Runs : WF_vars(Progress(r))

(* ------------------------------ helpers -------------------------------- *)

Range(s) == {s[i] : i \in 1..Len(s)}

NoDup(s) == \A i, j \in 1..Len(s) : i # j => s[i] # s[j]

InZlib(r) == pc[r] \in {"z_chmod", "z_configure", "z_compile", "z_rerun"}

InElf(r) ==
    pc[r] \in {"e_autoreconf", "e_configure", "e_makelib", "e_install",
               "e_distclean", "e_rerun"}

Legacy(r) == "novendor" \in cfg[r].features

\* the external processes the builders launch
BuilderProgs ==
    {"chmod", "zlib/configure", "cc", "autoreconf --install --force", "elfutils/configure",
     "make elfutils/lib", "make install elfutils/libelf", "make distclean elfutils",
     "make install libbpf/src", "make clean libbpf/src"}

(* ------------------------------- claims -------------------------------- *)

\* C1: mutual exclusion.  At most one run holds the flock on README.md and
\* at most one run is between taking and dropping it in make_zlib; the same
\* for the flock on elfutils/README in make_elfutils; a run inside a guarded
\* section is the holder of its lock.
C1_MutualExclusion ==
    /\ Cardinality(zlib_lock) <= 1
    /\ Cardinality(elf_lock) <= 1
    /\ \A r1, r2 \in Runs :
        r1 # r2 => /\ ~(InZlib(r1) /\ InZlib(r2))
                   /\ ~(InElf(r1) /\ InElf(r2))
    /\ \A r \in Runs : (InZlib(r) => r \in zlib_lock) /\ (InElf(r) => r \in elf_lock)

\* one run is inside make_zlib's guarded section while another run waits
\* for the same lock
C1_Witness ==
    \E r1, r2 \in Runs : r1 # r2 /\ InZlib(r1) /\ pc[r2] = "z_lock"

\* C2: a run holds the zlib lock only while it is inside make_zlib's guarded
\* section and the elfutils lock only while inside make_elfutils's; so after
\* a normal return or a panic at any step, and in Done or Failed, it holds
\* no lock.
C2_LockReleasedOnExit ==
    \A r \in Runs :
        /\ r \in zlib_lock => InZlib(r)
        /\ r \in elf_lock => InElf(r)
        /\ pc[r] \in {"done", "failed"} => r \notin zlib_lock \cup elf_lock

\* a run failed inside make_elfutils (make install exited non-zero) and
\* another run now holds the elfutils lock
C2_Witness ==
    \E r1, r2 \in Runs :
        /\ pc[r1] = "failed"
        /\ last[r1] = [prog |-> "make install elfutils/libelf", status |-> "nonzero"]
        /\ r2 # r1
        /\ r2 \in elf_lock

\* C3 as stated: make_elfutils is never invoked before make_zlib returned in
\* the same run, make_libbpf never before make_elfutils returned, whatever
\* the vendoring flags.
C3_Original ==
    \A r \in Runs :
        /\ "make_elfutils" \in Range(steps[r]) => "make_zlib:return" \in Range(steps[r])
        /\ "make_libbpf" \in Range(steps[r]) => "make_elfutils:return" \in Range(steps[r])

\* C3 amended: a builder is invoked only for a vendored library; when zlib
\* is vendored make_elfutils and make_libbpf are invoked only after make_zlib
\* returned, and when libelf is vendored make_libbpf only after make_elfutils
\* returned.
C3_DependencyOrder ==
    \A r \in Runs :
        LET S == Range(steps[r]) IN
        /\ "make_zlib" \in S => mode[r].vendored_zlib
        /\ "make_elfutils" \in S => mode[r].vendored_libelf
        /\ "make_libbpf" \in S => mode[r].vendored_libbpf
        /\ mode[r].vendored_zlib /\ "make_elfutils" \in S => "make_zlib:return" \in S
        /\ mode[r].vendored_zlib /\ "make_libbpf" \in S => "make_zlib:return" \in S
        /\ mode[r].vendored_libelf /\ "make_libbpf" \in S => "make_elfutils:return" \in S

\* all three builders ran to completion in one run
C3_Witness ==
    \E r \in Runs :
        {"make_zlib:return", "make_elfutils:return", "make_libbpf:return"}
            \subseteq Range(steps[r])

C5_Original ==
    \A r \in Runs :
        last[r].prog \in BuilderProgs /\ last[r].status = "nonzero" => pc[r] = "failed"

\* C5 amended: a non-zero exit of any external process of a builder other
\* than chmod (whose exit status is discarded) leaves the run Failed with
\* that process as the last step it took; no step is taken twice.
C5_NonZeroExitIsFatal ==
    \A r \in Runs :
        /\ last[r].prog \in BuilderProgs \ {"chmod"} /\ last[r].status # "ok" =>
              /\ pc[r] = "failed"
              /\ steps[r][Len(steps[r])] = last[r].prog
        /\ last[r].prog = "chmod" /\ last[r].status = "nospawn" => pc[r] = "failed"
        /\ NoDup(steps[r])

\* make distclean exited non-zero after every earlier step succeeded
C5_Witness ==
    \E r \in Runs :
        /\ pc[r] = "failed"
        /\ last[r] = [prog |-> "make distclean elfutils", status |-> "nonzero"]

IsLinkLib(d) == d.kind = "rustc-link-lib"

IsLinkSearch(d) == d.kind = "rustc-link-search"

IsInclude(d) == d.kind = "include"

IsBuilderCall(s) == s \in {"make_zlib", "make_elfutils", "make_libbpf"}

\* the tag of a link directive for a library linked statically or not
Tag(static) == IF static THEN "static=" ELSE ""

\* C6: once main has resolved the link modes, on android all six flags
\* (vendored and static, for libbpf, libelf and zlib) are true whatever the
\* features; on every other target OS each flag is exactly its feature flag.
C6_LinkModeResolution ==
    \A r \in Runs :
        pc[r] \notin {"main", "failed"} =>
            IF cfg[r].target_os = "android"
            THEN /\ mode[r].vendored_libbpf /\ mode[r].static_libbpf
                 /\ mode[r].vendored_libelf /\ mode[r].static_libelf
                 /\ mode[r].vendored_zlib /\ mode[r].static_zlib
            ELSE /\ mode[r].vendored_libbpf = ("vendored-libbpf" \in cfg[r].features)
                 /\ mode[r].vendored_libelf = ("vendored-libelf" \in cfg[r].features)
                 /\ mode[r].vendored_zlib = ("vendored-zlib" \in cfg[r].features)
                 /\ mode[r].static_libbpf = ("static-libbpf" \in cfg[r].features)
                 /\ mode[r].static_libelf = ("static-libelf" \in cfg[r].features)
                 /\ mode[r].static_zlib = ("static-zlib" \in cfg[r].features)

\* an android run without any feature has resolved all its modes to true and
\* is about to build zlib
C6_Witness ==
    /\ cfg[1].target_os = "android"
    /\ cfg[1].features = {}
    /\ mode[1].vendored_zlib /\ mode[1].static_libelf
    /\ pc[1] = "z_lock"

\* C7: a run with the novendor feature checks no tool, takes no lock and
\* invokes no builder; when it is done it has printed the deprecation
\* warning and one link directive for bpf, and nothing else.
C7_DeprecatedFlag ==
    \A r \in Runs :
        Legacy(r) =>
            /\ checked[r] = <<>>
            /\ steps[r] = <<>>
            /\ r \notin zlib_lock \cup elf_lock
            /\ pc[r] \in {"main", "novendor", "done", "failed"}
            /\ pc[r] # "done" => out[r] = <<>>
            /\ pc[r] = "done" =>
                  /\ Len(out[r]) = 2
                  /\ out[r][1].kind = "warning"
                  /\ out[r][2].kind = "rustc-link-lib"
                  /\ out[r][2].arg = <<"bpf">>
                  /\ out[r][2].mode = Tag(mode[r].static_libbpf)

\* a novendor run that also asks to vendor libelf, on android, is done
C7_Witness ==
    /\ cfg[1] = [features |-> {"novendor", "vendored-libelf"}, target_os |-> "android"]
    /\ pc[1] = "done"

\* C8 as stated: without any feature on a target other than android the
\* finished run invoked no builder, checked no tool, printed one dynamic link
\* directive per library and no link-search directive for the output
\* directory.
C8_Original ==
    \A r \in Runs :
        cfg[r].features = {} /\ cfg[r].target_os # "android" /\ pc[r] = "done" =>
            /\ steps[r] = <<>>
            /\ checked[r] = <<>>
            /\ SelectSeq(out[r], IsLinkLib)
                 = <<Directive("rustc-link-lib", "", <<"elf">>),
                     Directive("rustc-link-lib", "", <<"z">>),
                     Directive("rustc-link-lib", "", <<"bpf">>)>>
            /\ \A i \in 1..Len(out[r]) :
                 ~(IsLinkSearch(out[r][i]) /\ out[r][i].arg = out_dir)

\* C8 amended: without any feature on a target other than android the run
\* invokes no builder and checks no tool, and when done it has printed one
\* dynamic link directive per library, preceded by the link-search directive
\* for the output directory that every run without novendor prints.
C8_ScenarioA ==
    \A r \in Runs :
        cfg[r].features = {} /\ cfg[r].target_os # "android" =>
            /\ steps[r] = <<>>
            /\ checked[r] = <<>>
            /\ pc[r] = "done" =>
                /\ SelectSeq(out[r], IsLinkLib)
                     = <<Directive("rustc-link-lib", "", <<"elf">>),
                         Directive("rustc-link-lib", "", <<"z">>),
                         Directive("rustc-link-lib", "", <<"bpf">>)>>
                /\ out[r][1] = Directive("rustc-link-search", "native=", out_dir)

\* a run without any feature for linux is done
C8_Witness ==
    /\ cfg[1] = [features |-> {}, target_os |-> "linux"]
    /\ pc[1] = "done"

ToolsExpected(r) ==
    IF mode[r].vendored_libelf
    THEN {"autoreconf", "autopoint", "flex", "bison", "gawk", "aclocal", "pkg-config"}
    ELSE IF mode[r].vendored_libbpf \/ mode[r].vendored_zlib THEN {"pkg-config"}
    ELSE {}

\* C10: no program is checked twice and none that the resolved modes do not
\* require (none at all when nothing is vendored); once the run has reached
\* the first builder every required program has been checked, the autotools
\* programs among them when libelf is vendored.
C10_ToolChecks ==
    \A r \in Runs :
        /\ NoDup(checked[r])
        /\ Range(checked[r]) \subseteq ToolsExpected(r)
        /\ pc[r] \notin {"main", "novendor", "tools", "failed"} /\ ~Legacy(r) =>
              Range(checked[r]) = ToolsExpected(r)
        /\ steps[r] # <<>> => Range(checked[r]) = ToolsExpected(r)

\* a run that vendors only libelf has checked its seven programs and is in
\* make_elfutils
C10_Witness ==
    /\ cfg[1] = [features |-> {"vendored-libelf"}, target_os |-> "linux"]
    /\ Len(checked[1]) = 7
    /\ pc[1] = "e_autoreconf"

\* the architecture name the host triple carries
ExpectedArch(a) ==
    IF a = "riscv64gc" THEN "riscv64" ELSE IF a = "riscv32gc" THEN "riscv32" ELSE a

\* C11: the --host argument of elfutils' configure is determined by the
\* target arch, vendor, os and env alone: it is arch'-vendor-os-env with
\* arch' riscv64 for riscv64gc, riscv32 for riscv32gc and the arch itself
\* otherwise; vendor, os and env appear unaltered; two runs with the same
\* four inputs pass the same string.
C11_HostTriple ==
    /\ \A r \in Runs :
        host[r] # NoHost =>
            /\ host[r] = ExpectedArch(env[r].target_arch) \o "-" \o env[r].target_vendor
                            \o "-" \o cfg[r].target_os \o "-" \o env[r].target_env
            /\ env[r].target_arch = "riscv64gc" /\ env[r].target_vendor = "unknown"
                  /\ cfg[r].target_os = "linux" /\ env[r].target_env = "gnu"
                  => host[r] = "riscv64-unknown-linux-gnu"
            /\ env[r].target_arch = "riscv32gc" /\ env[r].target_vendor = "unknown"
                  /\ cfg[r].target_os = "android" /\ env[r].target_env = "musl"
                  => host[r] = "riscv32-unknown-android-musl"
            /\ env[r].target_arch = "aarch64" /\ env[r].target_vendor = "apple"
                  /\ cfg[r].target_os = "macos" /\ env[r].target_env = "gnu"
                  => host[r] = "aarch64-apple-macos-gnu"
    /\ \A r1, r2 \in Runs :
        host[r1] # NoHost /\ host[r2] # NoHost
          /\ env[r1].target_arch = env[r2].target_arch
          /\ env[r1].target_vendor = env[r2].target_vendor
          /\ env[r1].target_env = env[r2].target_env
          /\ cfg[r1].target_os = cfg[r2].target_os
          => host[r1] = host[r2]

\* configure of elfutils was launched for riscv32gc and succeeded
C11_Witness ==
    /\ env[1].target_arch = "riscv32gc"
    /\ host[1] = "riscv32-unknown-linux-musl"
    /\ pc[1] = "e_makelib"

\* C12: a step that passes a program to pkg_check leaves the run Failed
\* exactly if the program could not be started; if it was started, with a
\* zero or a non-zero exit, the run stays where it was and prints nothing.
C12_PkgCheckOutcome ==
    [][\A r \in Runs :
        checked'[r] # checked[r] =>
            /\ last'[r].prog = checked'[r][Len(checked'[r])]
            /\ (pc'[r] = "failed") <=> (last'[r].status = "nospawn")
            /\ last'[r].status # "nospawn" => pc'[r] = pc[r] /\ out'[r] = out[r]]_vars

\* flex was started and exited non-zero, and the run goes on checking
C12_Witness ==
    /\ last[1] = [prog |-> "flex", status |-> "nonzero"]
    /\ pc[1] = "tools"

NonEmpty(seg) == seg # ""

\* the link-search directives a finished run printed last, as many as n
Tail_n(s, n) == SubSeq(s, Len(s) - n + 1, Len(s))

\* C13 as stated: when LD_LIBRARY_PATH is set every segment of it is printed
\* as one more link-search directive, in order, after the link directives;
\* when it is unset there is none.
C13_Original ==
    \A r \in Runs :
        ~Legacy(r) /\ pc[r] = "done" =>
            LET ld == env[r].ld_library_path
                E == IF ld.set
                     THEN [i \in 1..Len(ld.parts) |->
                             Directive("rustc-link-search", "native=", <<ld.parts[i]>>)]
                     ELSE <<>>
            IN  /\ Len(SelectSeq(out[r], IsLinkSearch)) = 1 + Len(E)
                /\ Tail_n(out[r], Len(E)) = E

\* C13 amended: when LD_LIBRARY_PATH is set every segment of it that is not
\* empty is printed as one more link-search directive, in order, after the
\* three link directives and the include directive; empty segments are
\* skipped; when it is unset there is none.
C13_LdLibraryPath ==
    \A r \in Runs :
        ~Legacy(r) /\ pc[r] = "done" =>
            LET ld == env[r].ld_library_path
                P == IF ld.set THEN SelectSeq(ld.parts, NonEmpty) ELSE <<>>
                E == [i \in 1..Len(P) |->
                        Directive("rustc-link-search", "native=", <<P[i]>>)]
            IN  /\ Len(SelectSeq(out[r], IsLinkSearch)) = 1 + Len(E)
                /\ Tail_n(out[r], Len(E)) = E
                /\ \A i \in 1..Len(out[r]) :
                     IsLinkLib(out[r][i]) \/ IsInclude(out[r][i]) => i <= Len(out[r]) - Len(E)

\* a finished run whose LD_LIBRARY_PATH has an empty segment and then
\* /opt/lib
C13_Witness ==
    /\ env[1].ld_library_path = [set |-> TRUE, parts |-> <<"", "/opt/lib">>]
    /\ pc[1] = "done"

\* the call of make_elfutils, its external steps and its return, in the
\* order of the source
ElfOrder ==
    <<"make_elfutils", "autoreconf --install --force", "elfutils/configure",
      "make elfutils/lib", "make install elfutils/libelf", "make distclean elfutils",
      "make_elfutils:return">>

ElfIndex(x) == CHOOSE k \in 1..Len(ElfOrder) : ElfOrder[k] = x

\* C14: every step of make_elfutils after the call (autoreconf, configure,
\* make in elfutils/lib, make install in elfutils/libelf, make distclean, the
\* rerun directives and the return) is taken by a run that holds the elfutils
\* lock and whose latest step is the one before it in that order, which, if
\* it is an external process, exited successfully; the rerun directives are
\* printed by the last step and by no other.
C14_ElfStepOrder ==
    [][\A r \in Runs :
        /\ Len(steps'[r]) = Len(steps[r]) + 1
        /\ steps'[r][Len(steps'[r])] \in Range(ElfOrder) \ {"make_elfutils"}
        => LET k == ElfIndex(steps'[r][Len(steps'[r])]) IN
            /\ steps[r] # <<>>
            /\ steps[r][Len(steps[r])] = ElfOrder[k - 1]
            /\ r \in elf_lock
            /\ k > 2 => last[r] = [prog |-> ElfOrder[k - 1], status |-> "ok"]
            /\ IF k = Len(ElfOrder)
               THEN /\ Len(out'[r]) = Len(out[r]) + MaxDirEntries
                    /\ \A i \in Len(out[r]) + 1..Len(out'[r]) :
                         /\ out'[r][i].kind = "rerun-if-changed"
                         /\ SubSeq(out'[r][i].arg, 1, 3) = src_dir \o <<"elfutils", "src">>
               ELSE out'[r] = out[r]]_vars

\* a run that vendors only libelf has returned from make_elfutils
C14_Witness ==
    /\ cfg[1].features = {"vendored-libelf"}
    /\ cfg[1].target_os = "linux"
    /\ "make_elfutils:return" \in Range(steps[1])

\* how often x occurs in s
Count(s, x) == Cardinality({i \in 1..Len(s) : s[i] = x})

\* C15 as stated: in a finished run each builder was invoked exactly once if
\* its library resolved to vendored and not at all otherwise, for every
\* feature set; on android all three were invoked.
C15_Original ==
    \A r \in Runs :
        pc[r] = "done" =>
            /\ Count(steps[r], "make_zlib") = (IF mode[r].vendored_zlib THEN 1 ELSE 0)
            /\ Count(steps[r], "make_elfutils") = (IF mode[r].vendored_libelf THEN 1 ELSE 0)
            /\ Count(steps[r], "make_libbpf") = (IF mode[r].vendored_libbpf THEN 1 ELSE 0)
            /\ cfg[r].target_os = "android" =>
                  {"make_zlib", "make_elfutils", "make_libbpf"} \subseteq Range(steps[r])

\* C15 amended: no builder is invoked twice, and none for a library that did
\* not resolve to vendored or in a run with the novendor feature; a finished
\* run without novendor invoked the builder of every vendored library, so on
\* android all three.
C15_BuildersForVendored ==
    \A r \in Runs :
        /\ Count(steps[r], "make_zlib") <= (IF mode[r].vendored_zlib /\ ~Legacy(r) THEN 1 ELSE 0)
        /\ Count(steps[r], "make_elfutils")
              <= (IF mode[r].vendored_libelf /\ ~Legacy(r) THEN 1 ELSE 0)
        /\ Count(steps[r], "make_libbpf")
              <= (IF mode[r].vendored_libbpf /\ ~Legacy(r) THEN 1 ELSE 0)
        /\ pc[r] = "done" /\ ~Legacy(r) =>
              /\ mode[r].vendored_zlib => Count(steps[r], "make_zlib") = 1
              /\ mode[r].vendored_libelf => Count(steps[r], "make_elfutils") = 1
              /\ mode[r].vendored_libbpf => Count(steps[r], "make_libbpf") = 1
              /\ cfg[r].target_os = "android" =>
                    SelectSeq(steps[r], IsBuilderCall)
                        = <<"make_zlib", "make_elfutils", "make_libbpf">>

\* an android run without any feature is done
C15_Witness ==
    /\ cfg[1] = [features |-> {}, target_os |-> "android"]
    /\ pc[1] = "done"

IsLinkOrInclude(d) == d.kind \in {"rustc-link-search", "rustc-link-lib", "include"}

InBpf(r) == pc[r] \in {"b_install", "b_clean", "b_rerun"}

\* C17: a run inside make_libbpf holds neither the lock on README.md nor the
\* lock on elfutils/README, so nothing keeps two runs from being inside
\* make_libbpf at once.
C17_LibbpfUnlocked ==
    \A r \in Runs : InBpf(r) => r \notin zlib_lock /\ r \notin elf_lock

\* two runs are running make install or make clean in libbpf/src at once
C17_Witness ==
    \E r1, r2 \in Runs :
        /\ r1 # r2
        /\ pc[r1] = "b_install"
        /\ pc[r2] \in {"b_install", "b_clean"}

\* a step that writes into the zlib source tree: ./configure and the compile
WritesZlib(r) == pc[r] \in {"z_configure", "z_compile"}

\* a step that compiles with -I<src>/zlib/: configure and the makes of
\* elfutils (line 309) and, when zlib is vendored, make install of libbpf
\* (line 177)
ReadsZlib(r) ==
    \/ pc[r] \in {"e_configure", "e_makelib", "e_install"}
    \/ pc[r] = "b_install" /\ mode[r].vendored_zlib

\* C18: while one run is at a step of make_zlib that writes into the zlib
\* source tree, no other run is at a step that compiles against that tree.
C18_NoInterleavedZlibUse ==
    \A r1, r2 \in Runs : r1 # r2 => ~(WritesZlib(r1) /\ ReadsZlib(r2))

Terminal(r) == pc[r] \in {"done", "failed"}

\* C19 as stated: a run waiting for a lock that another run holds eventually
\* holds it, and eventually every run is Done or Failed.
C19_Original ==
    /\ \A r \in Runs :
        (pc[r] = "z_lock" /\ zlib_lock # {}) ~> (r \in zlib_lock)
    /\ \A r \in Runs :
        (pc[r] = "e_lock" /\ elf_lock # {}) ~> (r \in elf_lock)
    /\ <>[](\A r \in Runs : Terminal(r))

\* C19 amended: a run waiting for a lock eventually holds it or has failed on
\* an error of open or flock, and eventually every run is Done or Failed (so
\* the runs never all wait for a lock).
C19_Progress ==
    /\ \A r \in Runs :
        (pc[r] = "z_lock") ~> (r \in zlib_lock \/ pc[r] = "failed")
    /\ \A r \in Runs :
        (pc[r] = "e_lock") ~> (r \in elf_lock \/ pc[r] = "failed")
    /\ <>[](\A r \in Runs : Terminal(r))

\* one run waits for the README.md lock that another run holds
C19_Witness ==
    \E r1, r2 \in Runs :
        /\ pc[r1] = "z_lock"
        /\ r2 \in zlib_lock
        /\ pc[r2] = "z_compile"

\* C20: no run holds both locks, and a run that waits for one lock does not
\* hold the other.
C20_AtMostOneLock ==
    \A r \in Runs :
        /\ ~(r \in zlib_lock /\ r \in elf_lock)
        /\ pc[r] = "e_lock" => r \notin zlib_lock
        /\ pc[r] = "z_lock" => r \notin elf_lock

\* a run that returned from make_zlib waits for the elfutils lock another
\* run holds, while the README.md lock is free
C20_Witness ==
    \E r1, r2 \in Runs :
        /\ r1 # r2
        /\ pc[r1] = "e_lock"
        /\ "make_zlib:return" \in Range(steps[r1])
        /\ r2 \in elf_lock
        /\ zlib_lock = {}

====
